---- MODULE Spec2Model ----
(***************************************************************************)
(* Model of src/src/extension.ts: the process runner executeCommand, the   *)
(* remote-existence check, the "select target branch" command and the      *)
(* "merge current branch into target branch" command of the extension.     *)
(***************************************************************************)
EXTENDS Integers, Sequences, FiniteSets, TLC

(***************************************************************************)
(* Branch names.  A name is an atom; Spelling gives its characters where   *)
(* the code looks inside the text (String.includes).                       *)
(***************************************************************************)
Branches == {"master", "dev", "develop"}

\* extension.ts:126   context.globalState.get(...) || 'master'
DefaultBranch == "master"

\* the value globalState.get returns for a key never written (undefined)
Unset == "<unset>"

\* the text of a line of `git branch -r` after "origin/"
Spelling(b) ==
    CASE b = "master"  -> <<"m", "a", "s", "t", "e", "r">>
      [] b = "dev"     -> <<"d", "e", "v">>
      [] b = "develop" -> <<"d", "e", "v", "e", "l", "o", "p">>
      [] b = "HEAD"    -> <<"H", "E", "A", "D", " ", "-", ">", " ",
                            "o", "r", "i", "g", "i", "n", "/",
                            "m", "a", "s", "t", "e", "r">>
      [] OTHER         -> <<>>

Origin == <<"o", "r", "i", "g", "i", "n", "/">>

\* String.prototype.includes on character sequences
IsSubstr(p, s) ==
    \E i \in 0..(Len(s) - Len(p)) : SubSeq(s, i + 1, i + Len(p)) = p

\* extension.ts:114   stdout.includes(`origin/${branch}`); stdout is a
\* sequence of lines, the line for ref n reading "  origin/<n>"
StdoutIncludesOrigin(stdout, branch) ==
    \E i \in 1..Len(stdout) :
        IsSubstr(Origin \o Spelling(branch),
                 <<" ", " ">> \o Origin \o Spelling(stdout[i]))

\* a line that String.trim() reduces to ''
Blank(line) == line \in {"", " "}

\* extension.ts:188, 238, 269   .trim() of a one-line output: the line
\* without the surrounding white space, '' when there is none
Trim(stdout) ==
    LET nb == SelectSeq(stdout, LAMBDA l : ~Blank(l))
    IN  IF nb = <<>> THEN "" ELSE nb[1]

(***************************************************************************)
(* What the git child process of a command can do.                         *)
(*   ok       exits with code 0 and prints `out`                           *)
(*   fail     exits with a code other than 0                               *)
(*   spawnerr cannot be spawned: 'error' event                             *)
(*   throw    exec() itself throws (the catch of lines 61-67)              *)
(*   hang     never completes                                              *)
(***************************************************************************)
Kinds == {"ok", "fail", "spawnerr", "throw", "hang"}

\* the events Node delivers for a child of that kind, in any order
EventsOf(kind) ==
    CASE kind = "ok"       -> {"exit", "callback"}
      [] kind = "fail"     -> {"exit", "callback"}
      [] kind = "spawnerr" -> {"error", "callback"}
      [] OTHER             -> {}

RemoteListings == {<<>>, <<"develop">>, <<"HEAD", "master", "develop">>}
LocalListings  == {<<"dev", "develop", "master">>}
StatusOutputs  == {<<>>, <<" ">>, <<" M a.ts">>}

Pending       == [st |-> "pending",  stdout |-> <<>>, err |-> ""]
Resolved(out) == [st |-> "resolved", stdout |-> out,  err |-> ""]
Rejected(e)   == [st |-> "rejected", stdout |-> <<>>, err |-> e]

\* the state of one executeCommand call (lines 14-69)
NoCall ==
    [cmd |-> "", arg |-> "", kind |-> "none", out |-> <<>>, pend |-> {},
     timer |-> "none", isCompleted |-> FALSE, nsettle |-> 0, res |-> Pending]

\* resolve(...) or reject(...): a promise keeps its first settlement
Settle(k, r) ==
    [k EXCEPT !.nsettle = @ + 1,
              !.res = IF @.st = "pending" THEN r ELSE @]

\* clearTimeout(timeoutId)
ClearTimeout(k) ==
    [k EXCEPT !.timer = IF @ = "pending" THEN "cleared" ELSE @]

\* lines 61-67: the catch around exec()
OnExecThrow(k) ==
    IF ~k.isCompleted
    THEN Settle([ClearTimeout(k) EXCEPT !.isCompleted = TRUE], Rejected("throw"))
    ELSE k

\* lines 15-27: the promise executor up to the exec() call
NewCall(cmd, arg, kind, out) ==
    LET k == [cmd |-> cmd, arg |-> arg, kind |-> kind, out |-> out,
              pend |-> EventsOf(kind), timer |-> "pending",
              isCompleted |-> FALSE, nsettle |-> 0, res |-> Pending]
    IN  IF kind = "throw" THEN OnExecThrow(k) ELSE k

OnTimeoutSilent(k) == [k EXCEPT !.timer = "fired"]

\* lines 19-24: the timeout callback
OnTimeout(k) ==
    LET f == [k EXCEPT !.timer = "fired"]
    IN  IF ~k.isCompleted
        THEN Settle([f EXCEPT !.isCompleted = TRUE], Rejected("timeout"))
        ELSE f

OnExecCallbackUnguarded(k) ==
    LET d == [ClearTimeout(k) EXCEPT !.isCompleted = TRUE,
                                     !.pend = @ \ {"callback"}]
    IN  IF k.kind # "ok"
        THEN Settle(d, Rejected("exec-error"))
        ELSE Settle(d, Resolved(k.out))

\* lines 27-38: the exec completion callback
OnExecCallback(k) ==
    IF k.isCompleted
    THEN [k EXCEPT !.pend = @ \ {"callback"}]
    ELSE LET d == [ClearTimeout(k) EXCEPT !.isCompleted = TRUE,
                                          !.pend = @ \ {"callback"}]
         IN  IF k.kind # "ok"
             THEN Settle(d, Rejected("exec-error"))
             ELSE Settle(d, Resolved(k.out))

\* lines 41-51: the 'exit' listener
OnExit(k) ==
    IF ~k.isCompleted
    THEN LET d == [ClearTimeout(k) EXCEPT !.isCompleted = TRUE,
                                          !.pend = @ \ {"exit"}]
         IN  IF k.kind = "ok"
             THEN Settle(d, Resolved(<<>>))
             ELSE Settle(d, Rejected("exit-code"))
    ELSE [k EXCEPT !.pend = @ \ {"exit"}]

\* lines 54-60: the 'error' listener
OnError(k) ==
    IF ~k.isCompleted
    THEN Settle([ClearTimeout(k) EXCEPT !.isCompleted = TRUE,
                                        !.pend = @ \ {"error"}],
                Rejected("spawn-error"))
    ELSE [k EXCEPT !.pend = @ \ {"error"}]

\* the handler of event e applied to the call k
Deliver(k, e) ==
    CASE e = "timer"    -> OnTimeout(k)
      [] e = "callback" -> OnExecCallback(k)
      [] e = "exit"     -> OnExit(k)
      [] e = "error"    -> OnError(k)
      [] OTHER          -> k

\* the events that can be the first to reach a call that is not settled
FirstEvents(k) ==
    IF k.res.st # "pending" THEN {"none"} ELSE k.pend \cup {"timer"}

(***************************************************************************)
(* State.                                                                  *)
(***************************************************************************)
\* the number of times the user invokes a command of the extension
MaxInvocations == 2

\* the runs of the handlers: two invocations of the merge command, one of
\* the select command, one of checkGitRepository
MergeRuns  == {"m1", "m2"}
SelectRuns == {"s1"}
CheckRuns  == {"w1"}
Runs       == MergeRuns \cup SelectRuns \cup CheckRuns

\* the slot of the second of the two concurrent listings (lines 98-101)
Second(s) == "s1b"
Slots     == Runs \cup {Second(s) : s \in SelectRuns}

VARIABLES
    head,               \* the branch checked out in the working tree
    lastSelectedBranch, \* line 11
    globalState,        \* context.globalState 'lastSelectedBranch'
    targetBranchItem,   \* lines 129-136: the branch its text names
    mergeButton,        \* lines 139-146: [text, tooltip]
    pc,                 \* where each command handler is suspended
    currentBranchName,  \* lines 188, 238, per run
    hasRemoteBranch,    \* line 248, per merge run
    items,              \* lines 194-200, per select run
    call,               \* the executeCommand call of each slot
    log,                \* per run: git commands issued, their results, UI
    retargeted,         \* per run: lastSelectedBranch changed since invoked
    invocations         \* the number of command invocations so far

vars == <<head, lastSelectedBranch, globalState, targetBranchItem,
          mergeButton, pc, currentBranchName, hasRemoteBranch, items,
          call, log, retargeted, invocations>>

Terminal == {"done", "failed", "cancelled"}

Git(cmd, arg)  == [t |-> "git", a |-> cmd, b |-> arg, c |-> "", d |-> ""]
Ui(a, b, c)    == [t |-> "ui", a |-> a, b |-> b, c |-> c, d |-> ""]

\* the result a handler gets from a call: settled how, and for the two
\* commands whose output the merge handler trims (lines 238, 269) the
\* trimmed output c the handler got and, beside it, the trimmed output d
\* the child had printed when the call resolved
Res(k) ==
    LET trimmed == k.cmd \in {"branch --show-current", "status --porcelain"}
    IN  [t |-> "res", a |-> k.cmd, b |-> k.res.st,
         c |-> IF trimmed THEN Trim(k.res.stdout) ELSE "",
         d |-> IF trimmed /\ k.res.st = "resolved" THEN Trim(k.out) ELSE ""]

IdleButton(target) == [text |-> "merge", tooltip |-> target]
BusyButton         == [text |-> "merging", tooltip |-> "merging"]

\* lines 120-146: the state activate() leaves
Activated ==
    /\ head \in Branches
    /\ globalState \in Branches \cup {Unset}
    /\ lastSelectedBranch =
           (IF globalState = Unset THEN DefaultBranch ELSE globalState)
    /\ targetBranchItem = lastSelectedBranch
    /\ mergeButton = IdleButton(lastSelectedBranch)
    /\ pc = [r \in Runs |-> "idle"]
    /\ currentBranchName = [r \in Runs |-> ""]
    /\ hasRemoteBranch = [r \in MergeRuns |-> FALSE]
    /\ items = [s \in SelectRuns |-> {}]
    /\ log = [r \in Runs |-> <<>>]
    /\ retargeted = [r \in Runs |-> FALSE]
    /\ invocations = 0

Init ==
    /\ Activated
    /\ call = [c \in Slots |-> NoCall]

(***************************************************************************)
(* The child process of a command.                                         *)
(***************************************************************************)
OutputsOf(cmd) ==
    CASE cmd = "branch --show-current" -> {<<head>>}
      [] cmd = "branch -r"             -> RemoteListings
      [] cmd = "branch"                -> LocalListings
      [] cmd = "status --porcelain"    -> StatusOutputs
      [] OTHER                         -> {<<>>}

Behaviours(cmd) ==
    {[kind |-> "ok", out |-> o] : o \in OutputsOf(cmd)}
        \cup {[kind |-> k, out |-> <<>>] : k \in Kinds \ {"ok"}}

\* a call in flight whose child has not yet shown what it does
Issued(cmd, arg) == [NoCall EXCEPT !.cmd = cmd, !.arg = arg]

\* what the awaiting handler sees of a settled call, and whether the child
\* has exited with code 0 by then
Outcome(k) ==
    [cmd |-> k.cmd, arg |-> k.arg, res |-> k.res, out |-> k.out,
     moved |-> k.kind = "ok" /\ k.timer # "fired"]

\* the child of the call k is still running: it was spawned and no event of
\* it has come (lines 19-24 reject on the timer without killing the child)
StillRunning(k) ==
    k.kind \in {"ok", "fail", "hang"} /\ k.pend = EventsOf(k.kind)

\* every way the call in slot c can settle: a behaviour of the child and
\* the event that reaches the call first
Settlements(c) ==
    {Deliver(k, e) :
        <<k, e>> \in {<<k, e>> \in
            {NewCall(call[c].cmd, call[c].arg, b.kind, b.out) :
                b \in Behaviours(call[c].cmd)}
            \X {"timer", "callback", "exit", "error", "none"} :
                e \in FirstEvents(k)}}

Completions(c) == {Outcome(k) : k \in Settlements(c)}

InFlight(c) == call[c].cmd # "" /\ call[c].res.st = "pending"
Rejects(k)  == k.res.st = "rejected"

\* a checkout whose child exited with code 0 has moved the working tree
HeadAfter(k) ==
    IF k.cmd = "checkout" /\ k.moved /\ k.arg \in Branches
    THEN k.arg ELSE head

(***************************************************************************)
(* The merge command (lines 227-342).                                      *)
(***************************************************************************)
SameBranchNever(name, target) == FALSE

\* line 240
SameBranch(name, target) == name = target

\* line 245: JavaScript falsiness of lastSelectedBranch
Falsy(b) == b \in {Unset, ""}

\* lines 251-253: which of the two confirmation messages is shown
ConfirmKind(has) == IF has THEN "confirm-push" ELSE "confirm-no-remote"

\* what showInformationMessage can return: the button pressed, or
\* undefined when the dialog is dismissed
Answers == {"confirm", "cancel", "dismissed"}

DeclinedOnlyByCancel(answer) == answer = "cancel"

\* line 261
Declined(answer) == answer # "confirm"

\* line 269
HasUncommitted(status) == Trim(status) # ""

\* line 283
PullsFirst(has) == has

\* line 290: the branch the rollback after a failed pull checks out
RollbackBranch(r) == currentBranchName[r]

\* line 323: the branch checked out at the end
BackBranch(r) == currentBranchName[r]

\* the local variables of the handler; they end with the handler
MergeLocals(r, name, has) ==
    /\ currentBranchName' = [currentBranchName EXCEPT ![r] =
           IF pc'[r] \in Terminal THEN "" ELSE name]
    /\ hasRemoteBranch' = [hasRemoteBranch EXCEPT ![r] =
           IF pc'[r] \in Terminal THEN FALSE ELSE has]
    /\ UNCHANGED items

KeepMergeLocals(r) == MergeLocals(r, currentBranchName[r], hasRemoteBranch[r])

MergeCatchLeavingButton(r, lg, msg, detail) ==
    /\ UNCHANGED mergeButton
    /\ log' = [log EXCEPT ![r] = Append(lg, Ui("error", msg, detail))]
    /\ pc' = [pc EXCEPT ![r] = "failed"]
    /\ call' = [call EXCEPT ![r] = NoCall]

\* lines 333-341: the catch of the merge handler, after the trace lg
MergeCatch(r, lg, msg, detail) ==
    /\ mergeButton' = IdleButton(lastSelectedBranch)
    /\ log' = [log EXCEPT ![r] = Append(lg, Ui("error", msg, detail))]
    /\ pc' = [pc EXCEPT ![r] = "failed"]
    /\ call' = [call EXCEPT ![r] = NoCall]

\* await executeCommand(`git <cmd> <arg>`): the call is made, the trace lg
\* gains the command, the handler is suspended at `at`
MergeExec(r, lg, cmd, arg, at) ==
    /\ call' = [call EXCEPT ![r] = Issued(cmd, arg)]
    /\ log' = [log EXCEPT ![r] = Append(lg, Git(cmd, arg))]
    /\ pc' = [pc EXCEPT ![r] = at]

MergeInvokeExclusive(r) ==
    /\ pc[r] \in Terminal \cup {"idle"}
    /\ \A q \in MergeRuns : pc[q] \in Terminal \cup {"idle"}
    /\ invocations < MaxInvocations
    /\ invocations' = invocations + 1
    /\ retargeted' = [retargeted EXCEPT ![r] = FALSE]
    /\ \E workspaceFolder \in BOOLEAN :
           IF ~workspaceFolder
           THEN MergeCatch(r, <<>>, "no-workspace", "")
           ELSE /\ MergeExec(r, <<>>, "branch --show-current", "", "cur")
                /\ UNCHANGED mergeButton
    /\ KeepMergeLocals(r)
    /\ UNCHANGED <<head, lastSelectedBranch, globalState, targetBranchItem>>

\* lines 227-237
MergeInvoke(r) ==
    /\ pc[r] \in Terminal \cup {"idle"}
    /\ invocations < MaxInvocations
    /\ invocations' = invocations + 1
    /\ retargeted' = [retargeted EXCEPT ![r] = FALSE]
    /\ \E workspaceFolder \in BOOLEAN :
           IF ~workspaceFolder
           THEN MergeCatch(r, <<>>, "no-workspace", "")
           ELSE /\ MergeExec(r, <<>>, "branch --show-current", "", "cur")
                /\ UNCHANGED mergeButton
    /\ KeepMergeLocals(r)
    /\ UNCHANGED <<head, lastSelectedBranch, globalState, targetBranchItem>>

\* lines 238-248
MergeAfterCurrent(r) ==
    /\ pc[r] = "cur"
    /\ \E k \in Completions(r) :
       LET lg == Append(log[r], Res(k))
           name == Trim(k.res.stdout)
       IN  /\ head' = HeadAfter(k)
           /\ IF Rejects(k)
              THEN MergeCatch(r, lg, "git-error", k.cmd)
              ELSE IF SameBranch(name, lastSelectedBranch)
              THEN MergeCatch(r, lg, "same-branch", "")
              ELSE IF Falsy(lastSelectedBranch)
              THEN MergeCatch(r, lg, "no-target", "")
              ELSE /\ MergeExec(r, lg, "branch -r", lastSelectedBranch,
                                "remote")
                   /\ UNCHANGED mergeButton
           /\ MergeLocals(r, name, FALSE)
    /\ UNCHANGED <<invocations, lastSelectedBranch, globalState,
                   targetBranchItem, retargeted>>

CheckRemoteBranchExistsOptimistic(k) ==
    IF k.res.st = "resolved"
    THEN StdoutIncludesOrigin(k.res.stdout, k.arg)
    ELSE TRUE

\* lines 109-118: what checkRemoteBranchExists returns for the settled call
\* k, made for branch k.arg
CheckRemoteBranchExists(k) ==
    IF k.res.st = "resolved"
    THEN StdoutIncludesOrigin(k.res.stdout, k.arg)
    ELSE FALSE

\* lines 248-259
MergeAfterRemote(r) ==
    /\ pc[r] = "remote"
    /\ \E k \in Completions(r) :
       LET has == CheckRemoteBranchExists(k)
       IN  /\ head' = HeadAfter(k)
           /\ log' = [log EXCEPT ![r] =
                  log[r] \o <<Res(k),
                              Ui(ConfirmKind(has), currentBranchName[r],
                                 lastSelectedBranch)>>]
           /\ pc' = [pc EXCEPT ![r] = "confirm"]
           /\ call' = [call EXCEPT ![r] = NoCall]
           /\ MergeLocals(r, currentBranchName[r], has)
    /\ UNCHANGED <<invocations, lastSelectedBranch, globalState,
                   targetBranchItem, mergeButton, retargeted>>

\* lines 255-268
MergeAnswer(r) ==
    /\ pc[r] = "confirm"
    /\ \E answer \in Answers :
           LET lg == Append(log[r], Ui("answer", answer, ""))
           IN  IF Declined(answer)
               THEN /\ pc' = [pc EXCEPT ![r] = "cancelled"]
                    /\ log' = [log EXCEPT ![r] = lg]
                    /\ UNCHANGED call
               ELSE MergeExec(r, lg, "status --porcelain", "", "status")
    /\ KeepMergeLocals(r)
    /\ UNCHANGED <<invocations, head, lastSelectedBranch, globalState,
                   targetBranchItem, mergeButton, retargeted>>

\* lines 269-280
MergeAfterStatus(r) ==
    /\ pc[r] = "status"
    /\ \E k \in Completions(r) :
       LET lg == Append(log[r], Res(k))
       IN  /\ head' = HeadAfter(k)
           /\ IF Rejects(k)
              THEN MergeCatch(r, lg, "git-error", k.cmd)
              ELSE IF HasUncommitted(k.res.stdout)
              THEN MergeCatch(r, lg, "uncommitted-changes", "")
              ELSE /\ mergeButton' = BusyButton
                   /\ MergeExec(r, lg, "checkout", lastSelectedBranch,
                                "checkout")
    /\ KeepMergeLocals(r)
    /\ UNCHANGED <<invocations, lastSelectedBranch, globalState,
                   targetBranchItem, retargeted>>

\* lines 282-303, after the checkout of the target
MergeAfterCheckout(r) ==
    /\ pc[r] = "checkout"
    /\ \E k \in Completions(r) :
       LET lg == Append(log[r], Res(k))
       IN  /\ head' = HeadAfter(k)
           /\ IF Rejects(k)
              THEN MergeCatch(r, lg, "git-error", k.cmd)
              ELSE /\ IF PullsFirst(hasRemoteBranch[r])
                      THEN MergeExec(r, lg, "pull origin",
                                     lastSelectedBranch, "pull")
                      ELSE MergeExec(r, lg, "merge", currentBranchName[r],
                                     "merge")
                   /\ UNCHANGED mergeButton
    /\ KeepMergeLocals(r)
    /\ UNCHANGED <<invocations, lastSelectedBranch, globalState,
                   targetBranchItem, retargeted>>

\* lines 284-303, after the pull
MergeAfterPull(r) ==
    /\ pc[r] = "pull"
    /\ \E k \in Completions(r) :
       LET lg == Append(log[r], Res(k))
       IN  /\ head' = HeadAfter(k)
           /\ IF Rejects(k)
              THEN MergeExec(r, lg, "checkout", RollbackBranch(r),
                             "rollback")
              ELSE MergeExec(r, lg, "merge", currentBranchName[r], "merge")
    /\ KeepMergeLocals(r)
    /\ UNCHANGED <<invocations, lastSelectedBranch, globalState,
                   targetBranchItem, mergeButton, retargeted>>

\* lines 290-296, after the checkout back that follows a failed pull
MergeAfterRollback(r) ==
    /\ pc[r] = "rollback"
    /\ \E k \in Completions(r) :
       LET lg == Append(log[r], Res(k))
       IN  /\ head' = HeadAfter(k)
           /\ IF Rejects(k)
              THEN MergeCatch(r, lg, "git-error", k.cmd)
              ELSE MergeCatch(r, lg, "pull-failed", "")
    /\ KeepMergeLocals(r)
    /\ UNCHANGED <<invocations, lastSelectedBranch, globalState,
                   targetBranchItem, retargeted>>

MergeAfterMergeRollingBack(r) ==
    /\ pc[r] = "merge"
    /\ \E k \in Completions(r) :
       LET lg == Append(log[r], Res(k))
       IN  /\ head' = HeadAfter(k)
           /\ IF Rejects(k)
              THEN MergeExec(r, lg, "checkout", currentBranchName[r],
                             "rollback")
              ELSE MergeExec(r, lg, "push origin", lastSelectedBranch,
                             "push")
           /\ UNCHANGED mergeButton
    /\ KeepMergeLocals(r)
    /\ UNCHANGED <<invocations, lastSelectedBranch, globalState,
                   targetBranchItem, retargeted>>

\* lines 300-314, after the merge
MergeAfterMerge(r) ==
    /\ pc[r] = "merge"
    /\ \E k \in Completions(r) :
       LET lg == Append(log[r], Res(k))
       IN  /\ head' = HeadAfter(k)
           /\ IF Rejects(k)
              THEN MergeCatch(r, lg, "merge-failed", "")
              ELSE /\ MergeExec(r, lg, "push origin", lastSelectedBranch,
                                "push")
                   /\ UNCHANGED mergeButton
    /\ KeepMergeLocals(r)
    /\ UNCHANGED <<invocations, lastSelectedBranch, globalState,
                   targetBranchItem, retargeted>>

\* lines 311-325, after the push
MergeAfterPush(r) ==
    /\ pc[r] = "push"
    /\ \E k \in Completions(r) :
       LET lg == Append(log[r], Res(k))
       IN  /\ head' = HeadAfter(k)
           /\ MergeExec(r,
                        IF Rejects(k)
                        THEN Append(lg, Ui("warning", "push-failed", ""))
                        ELSE lg,
                        "checkout", BackBranch(r), "back")
    /\ KeepMergeLocals(r)
    /\ UNCHANGED <<invocations, lastSelectedBranch, globalState,
                   targetBranchItem, mergeButton, retargeted>>

\* lines 323-332, after the final checkout back
MergeAfterBack(r) ==
    /\ pc[r] = "back"
    /\ \E k \in Completions(r) :
       LET lg == Append(log[r], Res(k))
       IN  /\ head' = HeadAfter(k)
           /\ IF Rejects(k)
              THEN MergeCatch(r, lg, "git-error", k.cmd)
              ELSE /\ mergeButton' = IdleButton(lastSelectedBranch)
                   /\ log' = [log EXCEPT ![r] =
                          Append(lg, Ui("success", currentBranchName[r],
                                        lastSelectedBranch))]
                   /\ pc' = [pc EXCEPT ![r] = "done"]
                   /\ call' = [call EXCEPT ![r] = NoCall]
    /\ KeepMergeLocals(r)
    /\ UNCHANGED <<invocations, lastSelectedBranch, globalState,
                   targetBranchItem, retargeted>>

Merge(r) ==
    \/ MergeInvoke(r)
    \/ MergeAfterCurrent(r)
    \/ MergeAfterRemote(r)
    \/ MergeAnswer(r)
    \/ MergeAfterStatus(r)
    \/ MergeAfterCheckout(r)
    \/ MergeAfterPull(r)
    \/ MergeAfterRollback(r)
    \/ MergeAfterMerge(r)
    \/ MergeAfterPush(r)
    \/ MergeAfterBack(r)

(***************************************************************************)
(* The select-target command (lines 177-224).                              *)
(***************************************************************************)
\* the local variables of the handler; they end with the handler
SelectLocals(s, name, its) ==
    /\ currentBranchName' = [currentBranchName EXCEPT ![s] =
           IF pc'[s] \in Terminal THEN "" ELSE name]
    /\ items' = [items EXCEPT ![s] =
           IF pc'[s] \in Terminal THEN {} ELSE its]
    /\ UNCHANGED hasRemoteBranch

KeepSelectLocals(s) == SelectLocals(s, currentBranchName[s], items[s])

\* lines 219-223: the catch of the select handler
SelectCatch(s, msg, detail) ==
    /\ log' = [log EXCEPT ![s] = Append(@, Ui("error", msg, detail))]
    /\ pc' = [pc EXCEPT ![s] = "failed"]

\* lines 77-81: the names of the lines of `git branch -r`, the symbolic
\* HEAD line discarded
RemoteNames(stdout) ==
    {stdout[i] : i \in {j \in 1..Len(stdout) :
        /\ ~Blank(stdout[j])
        /\ ~IsSubstr(<<"H", "E", "A", "D">>, Spelling(stdout[j]))}}

\* lines 90-93: the names of the lines of `git branch`
LocalNames(stdout) ==
    {stdout[i] : i \in {j \in 1..Len(stdout) : ~Blank(stdout[j])}}

\* lines 98-105: the names getAvailableBranches returns
AvailableBranches(remoteOut, localOut) ==
    RemoteNames(remoteOut) \cup LocalNames(localOut)

\* lines 194-200: the branches offered, the current one left out
QuickPickItems(branches, name) == branches \ {name}

\* line 208
Dismissed(selected) == selected = Unset

\* lines 177-187
SelectInvoke(s) ==
    /\ pc[s] \in Terminal \cup {"idle"}
    /\ invocations < MaxInvocations
    /\ invocations' = invocations + 1
    /\ retargeted' = [retargeted EXCEPT ![s] = FALSE]
    /\ \E workspaceFolder \in BOOLEAN :
           IF ~workspaceFolder
           THEN /\ log' = [log EXCEPT ![s] =
                       <<Ui("error", "no-workspace", "")>>]
                /\ pc' = [pc EXCEPT ![s] = "failed"]
                /\ call' = [call EXCEPT ![s] = NoCall, ![Second(s)] = NoCall]
           ELSE /\ call' = [call EXCEPT
                       ![s] = Issued("branch --show-current", ""),
                       ![Second(s)] = NoCall]
                /\ log' = [log EXCEPT ![s] =
                       <<Git("branch --show-current", "")>>]
                /\ pc' = [pc EXCEPT ![s] = "cur"]
    /\ KeepSelectLocals(s)
    /\ UNCHANGED <<head, lastSelectedBranch, globalState, targetBranchItem,
                   mergeButton>>

\* lines 188-191 and 98-101: both listings are started
SelectAfterCurrent(s) ==
    /\ pc[s] = "cur"
    /\ \E k \in Completions(s) :
           /\ head' = HeadAfter(k)
           /\ IF Rejects(k)
              THEN /\ SelectCatch(s, "git-error", k.cmd)
                   /\ call' = [call EXCEPT ![s] = NoCall]
              ELSE /\ call' = [call EXCEPT
                          ![s] = Issued("branch -r", ""),
                          ![Second(s)] = Issued("branch", "")]
                   /\ log' = [log EXCEPT ![s] =
                          @ \o <<Git("branch -r", ""), Git("branch", "")>>]
                   /\ pc' = [pc EXCEPT ![s] = "branches"]
           /\ SelectLocals(s, Trim(k.res.stdout), {})
    /\ UNCHANGED <<invocations, lastSelectedBranch, globalState,
                   targetBranchItem, mergeButton, retargeted>>

\* lines 98-101 and 191-206: one of the two listings settles; Promise.all
\* rejects with the first rejection and resolves when both have resolved
SelectAfterBranches(s) ==
    /\ pc[s] = "branches"
    /\ \E c \in {s, Second(s)} :
       /\ InFlight(c)
       /\ \E k \in Completions(c) :
          LET other == IF c = s THEN call[Second(s)] ELSE call[s]
              ro    == IF c = s THEN k.res.stdout ELSE other.res.stdout
              lo    == IF c = s THEN other.res.stdout ELSE k.res.stdout
          IN  /\ head' = HeadAfter(k)
              /\ IF Rejects(k)
                 THEN /\ SelectCatch(s, "git-error", k.cmd)
                      /\ call' = [call EXCEPT ![s] = NoCall,
                                              ![Second(s)] = NoCall]
                      /\ KeepSelectLocals(s)
                 ELSE IF other.res.st = "resolved"
                 THEN /\ log' = [log EXCEPT ![s] =
                             Append(@, Ui("quickpick", "", ""))]
                      /\ pc' = [pc EXCEPT ![s] = "pick"]
                      /\ call' = [call EXCEPT ![s] = NoCall,
                                              ![Second(s)] = NoCall]
                      /\ SelectLocals(s, currentBranchName[s],
                             QuickPickItems(AvailableBranches(ro, lo),
                                            currentBranchName[s]))
                 ELSE /\ call' = [call EXCEPT ![c].res = k.res]
                      /\ UNCHANGED <<pc, log>>
                      /\ KeepSelectLocals(s)
    /\ UNCHANGED <<invocations, lastSelectedBranch, globalState,
                   targetBranchItem, mergeButton, retargeted>>

\* lines 203-214: the user picks an item or dismisses the prompt; a pick
\* sets the target and calls globalState.update, which stores the value.
\* The locals are not read after the pick.
SelectPick(s) ==
    /\ pc[s] = "pick"
    /\ \E selected \in items[s] \cup {Unset} :
           IF Dismissed(selected)
           THEN /\ pc' = [pc EXCEPT ![s] = "cancelled"]
                /\ log' = [log EXCEPT ![s] =
                       Append(@, Ui("picked", Unset, ""))]
                /\ UNCHANGED <<lastSelectedBranch, globalState, retargeted>>
           ELSE /\ lastSelectedBranch' = selected
                /\ globalState' = selected
                /\ retargeted' = [r \in Runs |->
                       retargeted[r] \/
                           (/\ r \in MergeRuns
                            /\ pc[r] \notin Terminal \cup {"idle"}
                            /\ selected # lastSelectedBranch)]
                /\ log' = [log EXCEPT ![s] =
                       Append(@, Ui("picked", selected, ""))]
                /\ pc' = [pc EXCEPT ![s] = "update"]
    /\ SelectLocals(s, "", {})
    /\ UNCHANGED <<invocations, head, targetBranchItem, mergeButton, call>>

\* lines 214-218: globalState.update settles
SelectAfterUpdate(s) ==
    /\ pc[s] = "update"
    /\ \E stored \in BOOLEAN :
           IF stored
           THEN /\ targetBranchItem' = lastSelectedBranch
                /\ mergeButton' = [mergeButton EXCEPT
                                       !.tooltip = lastSelectedBranch]
                /\ pc' = [pc EXCEPT ![s] = "done"]
                /\ UNCHANGED log
           ELSE /\ SelectCatch(s, "update-failed", "")
                /\ UNCHANGED <<targetBranchItem, mergeButton>>
    /\ KeepSelectLocals(s)
    /\ UNCHANGED <<invocations, head, lastSelectedBranch, globalState,
                   call, retargeted>>

Select(s) ==
    \/ SelectInvoke(s)
    \/ SelectAfterCurrent(s)
    \/ SelectAfterBranches(s)
    \/ SelectPick(s)
    \/ SelectAfterUpdate(s)

(***************************************************************************)
(* checkGitRepository (lines 149-169), run at activation and on every      *)
(* change of the workspace folders (lines 172, 345-347).  The trace of the *)
(* run tells whether it has shown or hidden the two status bar items.      *)
(***************************************************************************)
CheckInvokeResetting(w) ==
    /\ pc[w] \in {"idle", "done"}
    /\ lastSelectedBranch' = DefaultBranch
    /\ log' = [log EXCEPT ![w] = <<Ui("hide", "", "")>>]
    /\ pc' = [pc EXCEPT ![w] = "done"]
    /\ call' = [call EXCEPT ![w] = NoCall]
    /\ UNCHANGED <<head, globalState, targetBranchItem, mergeButton,
                   currentBranchName, hasRemoteBranch, items, retargeted,
                   invocations>>

\* lines 149-160
CheckInvoke(w) ==
    /\ pc[w] \in {"idle", "done"}
    /\ \E workspaceFolder \in BOOLEAN :
           IF ~workspaceFolder
           THEN /\ log' = [log EXCEPT ![w] = <<Ui("hide", "", "")>>]
                /\ pc' = [pc EXCEPT ![w] = "done"]
                /\ call' = [call EXCEPT ![w] = NoCall]
           ELSE /\ call' = [call EXCEPT ![w] = Issued("rev-parse --git-dir", "")]
                /\ log' = [log EXCEPT ![w] = <<Git("rev-parse --git-dir", "")>>]
                /\ pc' = [pc EXCEPT ![w] = "revparse"]
    /\ UNCHANGED <<head, lastSelectedBranch, globalState, targetBranchItem,
                   mergeButton, currentBranchName, hasRemoteBranch, items,
                   retargeted, invocations>>

\* lines 158-168
CheckAfterRevParse(w) ==
    /\ pc[w] = "revparse"
    /\ \E k \in Completions(w) :
           /\ head' = HeadAfter(k)
           /\ log' = [log EXCEPT ![w] =
                  Append(@, Ui(IF Rejects(k) THEN "hide" ELSE "show", "", ""))]
    /\ pc' = [pc EXCEPT ![w] = "done"]
    /\ call' = [call EXCEPT ![w] = NoCall]
    /\ UNCHANGED <<lastSelectedBranch, globalState, targetBranchItem,
                   mergeButton, currentBranchName, hasRemoteBranch, items,
                   retargeted, invocations>>

Check(w) == CheckInvoke(w) \/ CheckAfterRevParse(w)

(***************************************************************************)
(* executeCommand on its own (lines 14-69): one call, for every command    *)
(* and every behaviour of its child; the timer and the events of the child *)
(* reach the call one at a time, in any order.                             *)
(***************************************************************************)
Commands ==
    {"branch --show-current", "branch -r", "branch", "status --porcelain",
     "checkout", "pull origin", "merge", "push origin", "rev-parse --git-dir"}

ExecSlot == "m1"

InitExec ==
    /\ Activated
    /\ \E cmd \in Commands : \E b \in Behaviours(cmd) :
           call = [c \in Slots |->
                      IF c = ExecSlot
                      THEN NewCall(cmd, "", b.kind, b.out)
                      ELSE NoCall]

Event(c, e) ==
    /\ call' = [call EXCEPT ![c] = Deliver(@, e)]
    /\ UNCHANGED <<head, lastSelectedBranch, globalState, targetBranchItem,
                   mergeButton, pc, currentBranchName, hasRemoteBranch,
                   items, log, retargeted, invocations>>

TimerFire(c)    == call[c].timer = "pending" /\ Event(c, "timer")
ExecCallback(c) == "callback" \in call[c].pend /\ Event(c, "callback")
ChildExit(c)    == "exit" \in call[c].pend /\ Event(c, "exit")
ChildError(c)   == "error" \in call[c].pend /\ Event(c, "error")

NextExec ==
    \/ TimerFire(ExecSlot)
    \/ ExecCallback(ExecSlot)
    \/ ChildExit(ExecSlot)
    \/ ChildError(ExecSlot)

SpecExec == InitExec /\ [][NextExec]_vars

(***************************************************************************)
(* getAvailableBranches on its own (lines 72-106), on the text of the two  *)
(* listings: a listing is the sequence of the lines of stdout (split at    *)
(* the newlines, line 78), a line the sequence of its characters.          *)
(***************************************************************************)
MaxListing == 2

RemoteLines ==
    {<<>>,
     <<" ", " ", "o", "r", "i", "g", "i", "n", "/", "H", "E", "A", "D", " ", "-", ">", " ", "o", "r", "i", "g", "i", "n", "/", "a">>,
     <<" ", " ", "o", "r", "i", "g", "i", "n", "/", "a">>,
     <<" ", " ", "o", "r", "i", "g", "i", "n", "/", "b">>,
     <<" ", " ", "o", "r", "i", "g", "i", "n", "/", "H", "E", "A", "D", "-", "a">>}

LocalLines ==
    {<<>>,
     <<"*", " ", "a">>,
     <<" ", " ", "a">>,
     <<" ", " ", "b">>,
     <<"*", " ", "(", "H", "E", "A", "D", " ", "d", "e", "t", "a", "c", "h", "e", "d", " ", "a", "t", " ", "1", ")">>}

ListingsOf(lines) ==
    UNION {[1..n -> lines] : n \in 0..MaxListing}

\* the characters in the order of their UTF-16 code units
Alphabet ==
    <<" ", "(", ")", "*", "-", "/", "1", ">", "A", "D", "E", "H",
      "a", "b", "c", "d", "e", "g", "h", "i", "n", "o", "r", "t">>

Code(c) == CHOOSE i \in 1..Len(Alphabet) : Alphabet[i] = c

\* String.prototype.trim
RECURSIVE TrimStart(_)
TrimStart(l) ==
    IF l # <<>> /\ Head(l) = " " THEN TrimStart(Tail(l)) ELSE l

RECURSIVE TrimEnd(_)
TrimEnd(l) ==
    IF l # <<>> /\ l[Len(l)] = " " THEN TrimEnd(SubSeq(l, 1, Len(l) - 1)) ELSE l

TrimLine(l) == TrimEnd(TrimStart(l))

\* String.prototype.replace with a string pattern: the first occurrence
ReplaceFirst(l, p, q) ==
    IF IsSubstr(p, l)
    THEN LET i == CHOOSE j \in 0..(Len(l) - Len(p)) :
                      /\ SubSeq(l, j + 1, j + Len(p)) = p
                      /\ \A m \in 0..(j - 1) : SubSeq(l, m + 1, m + Len(p)) # p
         IN  SubSeq(l, 1, i) \o q \o SubSeq(l, i + Len(p) + 1, Len(l))
    ELSE l

MapSeq(f(_), q) == [i \in 1..Len(q) |-> f(q[i])]

\* lines 76-81
GetRemoteBranches(stdout) ==
    MapSeq(LAMBDA b : ReplaceFirst(b, <<"o", "r", "i", "g", "i", "n", "/">>, <<>>),
           SelectSeq(MapSeq(TrimLine, stdout),
                     LAMBDA b : b # <<>> /\ ~IsSubstr(<<"H", "E", "A", "D">>, b)))

\* lines 89-93
GetLocalBranches(stdout) ==
    SelectSeq(MapSeq(LAMBDA b : ReplaceFirst(TrimLine(b), <<"*", " ">>, <<>>),
                     stdout),
              LAMBDA b : b # <<>>)

\* [...new Set(a)]: the first occurrence of each element, in order
RECURSIVE Dedupe(_)
Dedupe(q) ==
    IF q = <<>> THEN <<>>
    ELSE LET d == Dedupe(SubSeq(q, 1, Len(q) - 1))
             x == q[Len(q)]
         IN  IF \E i \in 1..Len(d) : d[i] = x THEN d ELSE Append(d, x)

\* the order of Array.prototype.sort without a comparator: by code units
RECURSIVE Before(_, _)
Before(x, y) ==
    IF x = <<>> THEN y # <<>>
    ELSE IF y = <<>> THEN FALSE
    ELSE IF Head(x) = Head(y) THEN Before(Tail(x), Tail(y))
    ELSE Code(Head(x)) < Code(Head(y))

RECURSIVE Insert(_, _)
Insert(x, q) ==
    IF q = <<>> THEN <<x>>
    ELSE IF Before(Head(q), x) THEN <<Head(q)>> \o Insert(x, Tail(q))
    ELSE <<x>> \o q

RECURSIVE Sort(_)
Sort(q) == IF q = <<>> THEN <<>> ELSE Insert(Head(q), Sort(Tail(q)))

\* lines 97-106
GetAvailableBranches(remoteOut, localOut) ==
    Sort(Dedupe(GetRemoteBranches(remoteOut) \o GetLocalBranches(localOut)))

\* both listings have resolved with the text of their children
InitBranches ==
    /\ Activated
    /\ \E ro \in ListingsOf(RemoteLines), lo \in ListingsOf(LocalLines) :
           call = [c \in Slots |->
                      IF c \in SelectRuns
                      THEN [NoCall EXCEPT !.cmd = "branch -r",
                                          !.res = Resolved(ro)]
                      ELSE IF c \in {Second(s) : s \in SelectRuns}
                      THEN [NoCall EXCEPT !.cmd = "branch",
                                          !.res = Resolved(lo)]
                      ELSE NoCall]

\* line 191: branches = await getAvailableBranches(...); in this
\* specification items holds the array returned
ListBranches(s) ==
    /\ pc[s] = "idle"
    /\ pc' = [pc EXCEPT ![s] = "pick"]
    /\ items' = [items EXCEPT ![s] =
           GetAvailableBranches(call[s].res.stdout,
                                call[Second(s)].res.stdout)]
    /\ UNCHANGED <<head, lastSelectedBranch, globalState, targetBranchItem,
                   mergeButton, currentBranchName, hasRemoteBranch, call,
                   log, retargeted, invocations>>

NextBranches == \E s \in SelectRuns : ListBranches(s)

SpecBranches == InitBranches /\ [][NextBranches]_vars

\* a merge run and the checks of the workspace, no selection being made
NextTarget ==
    \/ Merge("m1")
    \/ \E w \in CheckRuns : Check(w)

SpecTarget == Init /\ [][NextTarget]_vars

\* the merge command invoked again while a run of it is suspended (line 227
\* registers the handler; nothing keeps a second call of it from starting),
\* from the state activate() leaves with no stored target on branch dev
InitMerges ==
    /\ Init
    /\ head = "dev"
    /\ globalState = Unset

NextMerges == \E r \in MergeRuns : Merge(r)

SpecMerges == InitMerges /\ [][NextMerges]_vars

\* a merge run together with one executeCommand call followed event by
\* event.  The timer of line 19 fires unless it is cleared, and a handler
\* suspended at an await goes on once the awaited call has settled; the
\* child owes no event, and the user owes neither a click on the button
\* nor an answer to the dialog.
LiveSlot == "s1b"

\* the commands whose child waits on the network
LiveCommands == {"pull origin", "push origin"}

InitLive ==
    /\ Activated
    /\ head = "dev"
    /\ globalState = Unset
    /\ \E cmd \in LiveCommands : \E b \in Behaviours(cmd) :
           call = [c \in Slots |->
                      IF c = LiveSlot
                      THEN NewCall(cmd, "", b.kind, b.out)
                      ELSE NoCall]

MergeResumes(r) ==
    \/ MergeAfterCurrent(r)
    \/ MergeAfterRemote(r)
    \/ MergeAfterStatus(r)
    \/ MergeAfterCheckout(r)
    \/ MergeAfterPull(r)
    \/ MergeAfterRollback(r)
    \/ MergeAfterMerge(r)
    \/ MergeAfterPush(r)
    \/ MergeAfterBack(r)

NextLive ==
    \/ MergeInvoke("m1")
    \/ MergeAnswer("m1")
    \/ MergeResumes("m1")
    \/ TimerFire(LiveSlot)
    \/ ExecCallback(LiveSlot)
    \/ ChildExit(LiveSlot)
    \/ ChildError(LiveSlot)

SpecLive ==
    /\ InitLive
    /\ [][NextLive]_vars
    /\ WF_vars(TimerFire(LiveSlot))
    /\ WF_vars(MergeResumes("m1"))

\* one run of the merge command and one of the select command at a time
Next ==
    \/ Merge("m1")
    \/ \E s \in SelectRuns : Select(s)

Spec == Init /\ [][Next]_vars

(***************************************************************************)
(* Reading a run's trace.                                                  *)
(***************************************************************************)
Mutations == {"checkout", "pull origin", "merge", "push origin"}

IsGit(e, cmd)   == e.t = "git" /\ e.a = cmd
IsUi(e, what)   == e.t = "ui" /\ e.a = what
Has(lg, T(_))   == \E i \in 1..Len(lg) : T(lg[i])
NoMutation(lg)  == \A i \in 1..Len(lg) : ~(lg[i].t = "git" /\ lg[i].a \in Mutations)
NoError(lg)     == \A i \in 1..Len(lg) : ~IsUi(lg[i], "error")
NoWarning(lg)   == \A i \in 1..Len(lg) : ~IsUi(lg[i], "warning")
Rejected_(e, cmd) == e.t = "res" /\ e.a = cmd /\ e.b = "rejected"
Resolved_(e, cmd) == e.t = "res" /\ e.a = cmd /\ e.b = "resolved"

\* the trace without the results of the calls: commands and UI only
Visible(lg) == SelectSeq(lg, LAMBDA e : e.t # "res")

\* the part of the trace after the answer to the confirmation dialog
AfterAnswer(lg) ==
    IF Has(lg, LAMBDA e : IsUi(e, "answer"))
    THEN LET i == CHOOSE j \in 1..Len(lg) : IsUi(lg[j], "answer")
         IN  SubSeq(lg, i + 1, Len(lg))
    ELSE <<>>

IsPrefix(p, q) == Len(p) <= Len(q) /\ SubSeq(q, 1, Len(p)) = p

(***************************************************************************)
(* C10: every executeCommand call is settled exactly once whatever the     *)
(* order of the timeout timer, the exec callback, 'exit' and 'error': the  *)
(* first event decides the outcome, later events change nothing, and the   *)
(* timer is no longer pending once an event of the child was handled.      *)
(***************************************************************************)
EventHandled(k) == k.kind = "throw" \/ k.timer = "fired" \/ k.pend # EventsOf(k.kind)

ChildCompleted(k) == k.kind = "throw" \/ k.pend # EventsOf(k.kind)

SettledOnceInv ==
    \A c \in Slots :
        LET k == call[c]
        IN  k.kind # "none" =>
              /\ k.nsettle <= 1
              /\ EventHandled(k) => (k.nsettle = 1 /\ k.res.st # "pending")
              /\ ~EventHandled(k) => (k.nsettle = 0 /\ k.res.st = "pending")
              /\ ChildCompleted(k) => k.timer # "pending"

FirstEventDecides ==
    \A c \in Slots :
        LET k == call[c]
            n == call'[c]
        IN  /\ k.res.st # "pending" =>
                (n.res = k.res /\ n.nsettle = k.nsettle
                    /\ n.isCompleted = k.isCompleted /\ n.timer = k.timer)
            /\ (k.res.st = "pending" /\ n # k) =>
                /\ (n.timer = "fired") => n.res = Rejected("timeout")
                /\ ("callback" \in k.pend \ n.pend) =>
                       n.res = IF k.kind = "ok" THEN Resolved(k.out)
                               ELSE Rejected("exec-error")
                /\ ("exit" \in k.pend \ n.pend) =>
                       n.res = IF k.kind = "ok" THEN Resolved(<<>>)
                               ELSE Rejected("exit-code")
                /\ ("error" \in k.pend \ n.pend) =>
                       n.res = Rejected("spawn-error")

C10_SettledExactlyOnce == []SettledOnceInv /\ [][FirstEventDecides]_vars

\* the timer fired first and both 'exit' and the callback arrived after it
C10_Witness ==
    LET k == call[ExecSlot]
    IN  /\ k.kind = "ok" /\ k.timer = "fired" /\ k.pend = {}
        /\ k.res = Rejected("timeout") /\ k.nsettle = 1

(***************************************************************************)
(* What a merge run's trace tells of the run.                              *)
(***************************************************************************)
\* the run started on branch C: C is what branch --show-current printed
StartedOn(lg, C) ==
    Has(lg, LAMBDA e : Resolved_(e, "branch --show-current") /\ e.d = C)

\* the run resolved its current branch to name (line 238)
ResolvedName(lg, name) ==
    Has(lg, LAMBDA e : Resolved_(e, "branch --show-current") /\ e.c = name)

\* the confirmation dialog of the run said T exists on the remote, or not
ReportedRemote(lg, T)   == Has(lg, LAMBDA e : IsUi(e, "confirm-push") /\ e.c = T)
ReportedNoRemote(lg, T) == Has(lg, LAMBDA e : IsUi(e, "confirm-no-remote") /\ e.c = T)

Confirmed(lg)   == Has(lg, LAMBDA e : e = Ui("answer", "confirm", ""))
AllResolved(lg) == \A i \in 1..Len(lg) : lg[i].t = "res" => lg[i].b = "resolved"
CleanTree(lg)   ==
    \A i \in 1..Len(lg) : Resolved_(lg[i], "status --porcelain") => lg[i].d = ""

HappyPath(C, T) ==
    <<Git("status --porcelain", ""), Git("checkout", T),
      Git("pull origin", T), Git("merge", C), Git("push origin", T),
      Git("checkout", C), Ui("success", C, T)>>

FollowsHappyPath(r, C, T) ==
    /\ IsPrefix(Visible(AfterAnswer(log[r])), HappyPath(C, T))
    /\ pc[r] \in Terminal =>
           (pc[r] = "done" /\ Visible(AfterAnswer(log[r])) = HappyPath(C, T))

(***************************************************************************)
(* C1: in a merge run started on branch C with target T # C, T reported as *)
(* existing on the remote, a clean working tree, the user confirming and   *)
(* every git command succeeding, the commands issued after the             *)
(* confirmation are, in this order, status --porcelain, checkout T,        *)
(* pull origin T, merge C, push origin T, checkout C, and the run then     *)
(* shows the success message naming C and T.                               *)
(***************************************************************************)
C1_HappyPathOrder ==
    \A r \in MergeRuns : \A C \in Branches, T \in Branches :
        (/\ C # T
         /\ ~retargeted[r]
         /\ StartedOn(log[r], C)
         /\ ReportedRemote(log[r], T)
         /\ CleanTree(log[r])
         /\ Confirmed(log[r])
         /\ AllResolved(log[r]))
        => FollowsHappyPath(r, C, T)

\* what does hold: the order of C1 with, for C, the name the run resolved
HappyPathOrderAsResolved ==
    \A r \in MergeRuns : \A name \in Branches \cup {""}, T \in Branches :
        (/\ ~retargeted[r]
         /\ ResolvedName(log[r], name)
         /\ ReportedRemote(log[r], T)
         /\ ~Has(log[r], LAMBDA e : Resolved_(e, "status --porcelain")
                                        /\ e.c # "")
         /\ Confirmed(log[r])
         /\ AllResolved(log[r]))
        => FollowsHappyPath(r, name, T)

(***************************************************************************)
(* C2: when the current branch the run resolved equals the selected target *)
(* the run fails with "cannot merge into the current branch", having       *)
(* issued the current-branch query only: no checkout, pull, merge or push  *)
(* and no confirmation dialog.                                             *)
(***************************************************************************)
SameBranchTrace(T) ==
    <<Git("branch --show-current", ""),
      [t |-> "res", a |-> "branch --show-current", b |-> "resolved",
       c |-> T, d |-> T],
      Ui("error", "same-branch", "")>>

SameBranchRefused ==
    \A r \in MergeRuns :
        (/\ pc[r] = "cur"
         /\ Len(log'[r]) > Len(log[r])
         /\ Resolved_(log'[r][Len(log[r]) + 1], "branch --show-current")
         /\ log'[r][Len(log[r]) + 1].c = lastSelectedBranch)
        => (/\ pc'[r] = "failed"
            /\ log'[r] = SameBranchTrace(lastSelectedBranch)
            /\ NoMutation(log'[r])
            /\ ~Has(log'[r], LAMBDA e : IsUi(e, "confirm-push")
                                          \/ IsUi(e, "confirm-no-remote")))

C2_SameBranchRefused == [][SameBranchRefused]_vars

C2_Witness ==
    \E r \in MergeRuns : \E T \in Branches :
        pc[r] = "failed" /\ log[r] = SameBranchTrace(T)

(***************************************************************************)
(* C3: when status --porcelain has returned output that is not all white   *)
(* space, the run fails with "uncommitted changes" and has issued no       *)
(* checkout, pull, merge or push.                                          *)
(***************************************************************************)
C3_DirtyTreeRefused ==
    \A r \in MergeRuns :
        Has(log[r], LAMBDA e : Resolved_(e, "status --porcelain") /\ e.d # "")
        => /\ pc[r] = "failed"
           /\ log[r][Len(log[r])] = Ui("error", "uncommitted-changes", "")
           /\ NoMutation(log[r])

\* what does hold: C3 for the output the call handed to the handler
DirtyRefusedAsResolved ==
    \A r \in MergeRuns :
        Has(log[r], LAMBDA e : Resolved_(e, "status --porcelain") /\ e.c # "")
        => /\ pc[r] = "failed"
           /\ log[r][Len(log[r])] = Ui("error", "uncommitted-changes", "")
           /\ NoMutation(log[r])

(***************************************************************************)
(* C4: when pull origin <target> fails, the next thing the run does is     *)
(* checkout <the branch the run started on>; no failure is reported before *)
(* that checkout, and the run issues no merge and no push.                 *)
(***************************************************************************)
RollsBackTo(lg, i, C) ==
    /\ Len(lg) > i
    /\ lg[i + 1] = Git("checkout", C)
    /\ \A j \in 1..(i + 1) : ~IsUi(lg[j], "error")
    /\ \A j \in 1..Len(lg) :
           ~IsGit(lg[j], "merge") /\ ~IsGit(lg[j], "push origin")

C4_PullFailureRollsBack ==
    \A r \in MergeRuns : \A C \in Branches : \A i \in 1..Len(log[r]) :
        (StartedOn(log[r], C) /\ Rejected_(log[r][i], "pull origin"))
        => RollsBackTo(log[r], i, C)

\* what does hold: C4 with the name the run resolved for its branch
RollsBackAsResolved ==
    \A r \in MergeRuns : \A name \in Branches \cup {""} :
        \A i \in 1..Len(log[r]) :
            (ResolvedName(log[r], name) /\ Rejected_(log[r][i], "pull origin"))
            => RollsBackTo(log[r], i, name)

(***************************************************************************)
(* C5: when the merge succeeds and push origin <target> fails, the run     *)
(* still ends in success: the push failure gives a warning only, no error  *)
(* is shown, the success message is, and the working tree is back on the   *)
(* branch the run started on.  Stated for the runs in which no call but    *)
(* the push is rejected.                                                   *)
(***************************************************************************)
OnlyPushRejected(lg) ==
    /\ Has(lg, LAMBDA e : Rejected_(e, "push origin"))
    /\ \A i \in 1..Len(lg) :
           (lg[i].t = "res" /\ lg[i].a # "push origin") => lg[i].b = "resolved"

SucceedsWithWarning(r) ==
    /\ pc[r] = "done"
    /\ NoError(log[r])
    /\ Has(log[r], LAMBDA e : e = Ui("warning", "push-failed", ""))
    /\ IsUi(log[r][Len(log[r])], "success")

C5_PushFailureStillSucceeds ==
    \A r \in MergeRuns : \A C \in Branches :
        (/\ StartedOn(log[r], C)
         /\ OnlyPushRejected(log[r])
         /\ pc[r] \in Terminal)
        => (SucceedsWithWarning(r) /\ head = C)

\* what does hold: C5 with the name the run resolved for its branch
PushFailureAsResolved ==
    \A r \in MergeRuns : \A name \in Branches \cup {""} :
        (/\ ResolvedName(log[r], name)
         /\ OnlyPushRejected(log[r])
         /\ pc[r] \in Terminal)
        => /\ SucceedsWithWarning(r)
           /\ Has(log[r], LAMBDA e : e = Git("checkout", name))
           /\ name \in Branches => head = name

(***************************************************************************)
(* C6: when the merge command fails the run reports the failure and issues *)
(* no further git command, no push and no checkout back: the working tree  *)
(* stays on the target branch the run had checked out.                     *)
(***************************************************************************)
\* the branch of the last checkout the run issued before position i
CheckedOut(lg, i) ==
    LET j == CHOOSE n \in 1..i :
                 /\ IsGit(lg[n], "checkout")
                 /\ \A m \in (n + 1)..i : ~IsGit(lg[m], "checkout")
    IN  lg[j].b

C6_MergeFailureStops ==
    \A r \in MergeRuns : \A i \in 1..Len(log[r]) :
        Rejected_(log[r][i], "merge") =>
            /\ pc[r] = "failed"
            /\ Len(log[r]) = i + 1
            /\ log[r][i + 1] = Ui("error", "merge-failed", "")
            /\ ~Has(log[r], LAMBDA e : IsGit(e, "push origin"))
            /\ Has(SubSeq(log[r], 1, i), LAMBDA e : IsGit(e, "checkout"))
            /\ head = CheckedOut(log[r], i)

C6_Witness ==
    \E r \in MergeRuns : \E i \in 1..Len(log[r]) :
        /\ Rejected_(log[r][i], "merge")
        /\ pc[r] = "failed"
        /\ log[r][Len(log[r])] = Ui("error", "merge-failed", "")
        /\ head = CheckedOut(log[r], i)
        /\ ~StartedOn(log[r], head)

(***************************************************************************)
(* C7: a run whose target was reported as not existing on the remote       *)
(* issues neither pull origin <target> nor push origin <target>.           *)
(***************************************************************************)
C7_NoRemoteNoPullNoPush ==
    \A r \in MergeRuns : \A T \in Branches :
        ReportedNoRemote(log[r], T) =>
            /\ ~Has(log[r], LAMBDA e : e = Git("pull origin", T))
            /\ ~Has(log[r], LAMBDA e : e = Git("push origin", T))

\* what does hold: the pull alone is gated (line 283)
NoRemoteNoPull ==
    \A r \in MergeRuns : \A T \in Branches :
        ReportedNoRemote(log[r], T) =>
            ~Has(log[r], LAMBDA e : IsGit(e, "pull origin"))

(***************************************************************************)
(* C8 is about a run whose target is unset.  The target is set from        *)
(* activation on (line 126) and a pick only sets it to the label of an     *)
(* item (line 213), so no run meets the test of line 245 with it unset.    *)
(***************************************************************************)
TargetAlwaysSet == ~Falsy(lastSelectedBranch)

(***************************************************************************)
(* C9: declining or dismissing the confirmation dialog of a merge, and     *)
(* dismissing the prompt of a selection, end the operation with nothing    *)
(* changed: the target in memory and the persisted one, the two status bar *)
(* items and the working tree are as they were, the run has issued no      *)
(* checkout, pull, merge or push and has shown no error and no warning.    *)
(***************************************************************************)
Answered(r) ==
    /\ pc[r] \in {"confirm", "pick"}
    /\ pc'[r] # pc[r]

NotAccepted(r) ==
    LET e == log'[r][Len(log[r]) + 1]
    IN  \/ r \in MergeRuns /\ e \in {Ui("answer", a, "") : a \in Answers \ {"confirm"}}
        \/ r \in SelectRuns /\ e = Ui("picked", Unset, "")

CancelChangesNothing ==
    \A r \in Runs :
        (Answered(r) /\ NotAccepted(r)) =>
            /\ pc'[r] = "cancelled"
            /\ UNCHANGED <<lastSelectedBranch, globalState, targetBranchItem,
                           mergeButton, head>>

CancelledQuietly ==
    \A r \in Runs :
        pc[r] = "cancelled" =>
            NoMutation(log[r]) /\ NoError(log[r]) /\ NoWarning(log[r])

\* up to its dialog or prompt a run changes none of these either
QuietUntilAsked ==
    \A r \in Runs :
        (pc'[r] # pc[r] /\ pc'[r] \in {"cur", "remote", "branches", "confirm",
                                        "pick", "cancelled"})
        => UNCHANGED <<lastSelectedBranch, globalState, targetBranchItem,
                       mergeButton, head>>

C9_CancelIsSilent ==
    /\ []CancelledQuietly
    /\ [][CancelChangesNothing /\ QuietUntilAsked]_vars

\* both a merge and a selection have been cancelled
C9_Witness ==
    /\ \E r \in MergeRuns :
           /\ pc[r] = "cancelled"
           /\ log[r][Len(log[r])] = Ui("answer", "dismissed", "")
    /\ \E s \in SelectRuns :
           /\ pc[s] = "cancelled"
           /\ log[s][Len(log[s])] = Ui("picked", Unset, "")

(***************************************************************************)
(* C11: when the child exits with code 0 before the timeout elapses, the   *)
(* call resolves with the output captured from the child, whichever of     *)
(* 'exit' and the exec callback is delivered first.                        *)
(***************************************************************************)
C11_ResolvesWithCapturedOutput ==
    LET k == call[ExecSlot]
    IN  (k.kind = "ok" /\ k.timer # "fired" /\ k.res.st # "pending")
            => k.res = Resolved(k.out)

\* what does hold: the output is returned when the callback comes first,
\* and the call resolves, with or without it, in both orders
ResolvesOnExitZero ==
    LET k == call[ExecSlot]
    IN  (k.kind = "ok" /\ k.timer # "fired" /\ k.res.st # "pending")
            => k.res \in {Resolved(k.out), Resolved(<<>>)}

(***************************************************************************)
(* C12: checkRemoteBranchExists never throws.  When its git branch -r call *)
(* is rejected, for whatever reason, it returns false and the merge run    *)
(* goes on to the confirmation dialog in its "not on the remote" form; the *)
(* run does not fail there.                                                *)
(***************************************************************************)
RemoteCheckFailureIsNoRemote ==
    \A r \in MergeRuns :
        (/\ pc[r] = "remote"
         /\ Len(log'[r]) > Len(log[r])
         /\ Rejected_(log'[r][Len(log[r]) + 1], "branch -r"))
        => /\ pc'[r] = "confirm"
           /\ ~hasRemoteBranch'[r]
           /\ log'[r] = log[r] \o
                  <<log'[r][Len(log[r]) + 1],
                    Ui("confirm-no-remote", currentBranchName[r],
                       lastSelectedBranch)>>

RemoteCheckNeverFailsRun ==
    \A r \in MergeRuns : \A i \in 1..Len(log[r]) :
        Rejected_(log[r][i], "branch -r") =>
            /\ Len(log[r]) > i
            /\ IsUi(log[r][i + 1], "confirm-no-remote")
            /\ ~Has(log[r], LAMBDA e : e = Ui("error", "git-error", "branch -r"))

\* every way the call can be rejected gives false
EveryRejectionIsFalse ==
    \A r \in MergeRuns :
        pc[r] = "remote" =>
            /\ \A k \in Completions(r) : Rejects(k) => ~CheckRemoteBranchExists(k)
            /\ {"exit-code", "exec-error", "timeout", "spawn-error", "throw"}
                   \subseteq {k.res.err : k \in Completions(r)}

C12_RemoteCheckNeverThrows ==
    /\ [](RemoteCheckNeverFailsRun /\ EveryRejectionIsFalse)
    /\ [][RemoteCheckFailureIsNoRemote]_vars

\* a run whose remote check was rejected and which went on to its end
C12_Witness ==
    \E r \in MergeRuns : \E i \in 1..Len(log[r]) :
        /\ Rejected_(log[r][i], "branch -r")
        /\ IsUi(log[r][i + 1], "confirm-no-remote")
        /\ pc[r] = "done"

(***************************************************************************)
(* C13: for all outputs of git branch -r and git branch, the array         *)
(* getAvailableBranches returns is sorted, has no name twice, and holds    *)
(* exactly the local branch names (the marker of the current branch        *)
(* stripped) and the remote branch names (the prefix naming the remote     *)
(* stripped, the symbolic HEAD line discarded).                            *)
(***************************************************************************)
StartsWith(l, p) == Len(l) >= Len(p) /\ SubSeq(l, 1, Len(p)) = p

\* a line of git branch -r that names a branch: not blank, and not the
\* line of the symbolic ref, which is the one with an arrow
NamesRemoteBranch(l) ==
    TrimLine(l) # <<>> /\ ~IsSubstr(<<" ", "-", ">", " ">>, l)

\* the branch it names: what follows the name of the remote
RemoteBranchName(l) ==
    LET t == TrimLine(l)
        i == CHOOSE j \in 1..Len(t) :
                 t[j] = "/" /\ \A m \in 1..(j - 1) : t[m] # "/"
    IN  SubSeq(t, i + 1, Len(t))

\* a line of git branch that names a branch: not blank, and not the
\* notice git prints in place of a name when HEAD is detached
NamesLocalBranch(l) ==
    TrimLine(l) # <<>> /\ ~StartsWith(TrimLine(l), <<"*", " ", "(">>)

LocalBranchName(l) ==
    LET t == TrimLine(l)
    IN  IF StartsWith(t, <<"*", " ">>) THEN SubSeq(t, 3, Len(t)) ELSE t

BranchNamesOf(remoteOut, localOut) ==
    {RemoteBranchName(remoteOut[i]) :
        i \in {j \in 1..Len(remoteOut) : NamesRemoteBranch(remoteOut[j])}}
    \cup
    {LocalBranchName(localOut[i]) :
        i \in {j \in 1..Len(localOut) : NamesLocalBranch(localOut[j])}}

SortedNoDuplicates(q) ==
    \A i, j \in 1..Len(q) : i < j => Before(q[i], q[j])

C13_AvailableBranches ==
    \A s \in SelectRuns :
        pc[s] = "pick" =>
            /\ SortedNoDuplicates(items[s])
            /\ {items[s][i] : i \in 1..Len(items[s])} =
                   BranchNamesOf(call[s].res.stdout,
                                 call[Second(s)].res.stdout)

\* what does hold: sorted and without duplicates, for every listing; and
\* the names are the branch names when no name contains HEAD
AvailableBranchesSorted ==
    \A s \in SelectRuns :
        pc[s] = "pick" =>
            /\ SortedNoDuplicates(items[s])
            /\ (\A c \in {s, Second(s)} : \A i \in 1..Len(call[c].res.stdout) :
                    ~IsSubstr(<<"H", "E", "A", "D">>, call[c].res.stdout[i])
                    \/ call[c].res.stdout[i] = 
                        <<" ", " ", "o", "r", "i", "g", "i", "n", "/", "H", "E", "A", "D", " ", "-", ">", " ", "o", "r", "i", "g", "i", "n", "/", "a">>)
               => {items[s][i] : i \in 1..Len(items[s])} =
                      BranchNamesOf(call[s].res.stdout,
                                    call[Second(s)].res.stdout)

(***************************************************************************)
(* C14: the selected target, in memory and persisted, is changed only by a *)
(* pick made in the select-target command: no step of a merge run, however *)
(* the run ends, and no step of the workspace check changes either.        *)
(***************************************************************************)
PickStep ==
    \E s \in SelectRuns : pc[s] = "pick" /\ pc'[s] = "update"

TargetChangedOnlyByPick ==
    (lastSelectedBranch' # lastSelectedBranch \/ globalState' # globalState)
        => PickStep

C14_TargetChangedOnlyByPick == [][TargetChangedOnlyByPick]_vars

\* a merge has succeeded and the workspace was checked, the target that
\* activation found stored being still the target
C14_Witness ==
    /\ pc["m1"] = "done"
    /\ \E w \in CheckRuns : pc[w] = "done"
    /\ lastSelectedBranch = "dev" /\ globalState = "dev"

(***************************************************************************)
(* C15: a merge run that fails, at whatever step, ends with the merge      *)
(* button back at its idle text and tooltip and with exactly one error     *)
(* message shown, and it has issued no git command again after that        *)
(* command was rejected.                                                   *)
(***************************************************************************)
Errors(lg) == {i \in 1..Len(lg) : IsUi(lg[i], "error")}

FailureRestoresButton ==
    \A r \in MergeRuns :
        (pc[r] # "failed" /\ pc'[r] = "failed") =>
            /\ mergeButton' = IdleButton(lastSelectedBranch')
            /\ Errors(log'[r]) = {Len(log'[r])}

NoRetry(lg) ==
    \A i \in 2..Len(lg) :
        (lg[i].t = "res" /\ lg[i].b = "rejected") =>
            \A j \in (i + 1)..Len(lg) : lg[j] # lg[i - 1]

FailedWithOneError ==
    \A r \in MergeRuns :
        /\ NoRetry(log[r])
        /\ pc[r] = "failed" => Errors(log[r]) = {Len(log[r])}
        /\ pc[r] # "failed" => Errors(log[r]) = {}

C15_FailureRestoresIndicator ==
    []FailedWithOneError /\ [][FailureRestoresButton]_vars

\* runs have failed at each of the steps, the button idle again
FailedAt(r, cmd) ==
    /\ pc[r] = "failed"
    /\ Len(log[r]) >= 2
    /\ Rejected_(log[r][Len(log[r]) - 1], cmd)
    /\ mergeButton = IdleButton(lastSelectedBranch)

C15_Witness == FailedAt("m1", "merge")

(***************************************************************************)
(* C16: whenever pull origin <target> is rejected, the error the run ends  *)
(* with is the pull failure, whether the checkout back to the original     *)
(* branch that follows the pull resolves or is rejected.                   *)
(***************************************************************************)
PullFailed(lg) == Has(lg, LAMBDA e : Rejected_(e, "pull origin"))

SurfacesPullFailure(lg) == lg[Len(lg)] = Ui("error", "pull-failed", "")

C16_PullFailureSurfaced ==
    \A r \in MergeRuns :
        (pc[r] = "failed" /\ PullFailed(log[r]))
        => SurfacesPullFailure(log[r])

\* what does hold: the pull failure is the one shown when the checkout back
\* resolves, and the failure of that checkout is the one shown otherwise
PullFailureSurfacedAfterRollback ==
    \A r \in MergeRuns :
        (pc[r] = "failed" /\ PullFailed(log[r]))
        => LET lg == log[r]
           IN  IF Resolved_(lg[Len(lg) - 1], "checkout")
               THEN SurfacesPullFailure(lg)
               ELSE /\ Rejected_(lg[Len(lg) - 1], "checkout")
                    /\ lg[Len(lg)] = Ui("error", "git-error", "checkout")

(***************************************************************************)
(* C17: within one merge run a git command is started only after the child *)
(* process of the previous command of the run has terminated, however the  *)
(* previous call settled, so the run never has two children alive.         *)
(***************************************************************************)
\* this step takes the completion k of the call of run r and goes on to
\* start the next git command of the run
StartsNextAfter(r, k) ==
    /\ call[r].cmd # ""
    /\ IsPrefix(Append(log[r], Res(k)), log'[r])
    /\ head' = HeadAfter(k)
    /\ \E i \in (Len(log[r]) + 2)..Len(log'[r]) : log'[r][i].t = "git"

StartsAfterTermination ==
    \A r \in MergeRuns : \A k \in Settlements(r) :
        StartsNextAfter(r, Outcome(k)) => ~StillRunning(k)

C17_StrictlySequential == [][StartsAfterTermination]_vars

\* what does hold: the child of a call is still running when the call has
\* settled only if the call was rejected by its timer
AliveOnlyAfterTimeout ==
    \A r \in MergeRuns : \A k \in Settlements(r) :
        StillRunning(k) => k.res = Rejected("timeout")

(***************************************************************************)
(* C18: the merge command has no mutual exclusion.  While a run of it is   *)
(* suspended, at the confirmation dialog or at a git command, a second     *)
(* invocation is neither blocked nor rejected: it starts and issues its    *)
(* first command; so both runs get past the confirmation and their         *)
(* checkout, pull, merge and push commands interleave on the working tree. *)
(***************************************************************************)
Suspended(r) == pc[r] \notin Terminal \cup {"idle"}

C18_NoMutualExclusion ==
    \A r \in MergeRuns :
        (~Suspended(r) /\ invocations < MaxInvocations)
        => ENABLED (MergeInvoke(r) /\ pc'[r] = "cur")

\* both runs are past the confirmation with a command that changes the
\* working tree in flight, one already merging while the other checks out
C18_Witness ==
    /\ \A r \in MergeRuns :
           /\ Confirmed(log[r])
           /\ InFlight(r)
           /\ call[r].cmd \in Mutations
    /\ pc["m1"] = "merge"
    /\ pc["m2"] = "checkout"

(***************************************************************************)
(* C19: within one merge run the branch checked out after the              *)
(* confirmation, the branch pulled, the branch pushed and the branch named *)
(* in the success message are all the target the confirmation dialog       *)
(* showed, also when a target selection completes while the run is         *)
(* suspended.                                                              *)
(***************************************************************************)
IsDialog(e) == e.t = "ui" /\ e.a \in {ConfirmKind(TRUE), ConfirmKind(FALSE)}

NamesTarget(lg, j, T) ==
    /\ (IsGit(lg[j], "pull origin") \/ IsGit(lg[j], "push origin"))
       => lg[j].b = T
    /\ (IsGit(lg[j], "checkout") /\ lg[j - 1].a = "status --porcelain")
       => lg[j].b = T
    /\ IsUi(lg[j], "success") => lg[j].c = T

OneTarget(lg) ==
    \A i \in 1..Len(lg) :
        IsDialog(lg[i])
        => \A j \in (i + 1)..Len(lg) : NamesTarget(lg, j, lg[i].c)

C19_OneTargetPerRun == \A r \in MergeRuns : OneTarget(log[r])

\* what does hold: C19 for the runs during which no selection changed the
\* target
OneTargetUnlessRetargeted ==
    \A r \in MergeRuns : ~retargeted[r] => OneTarget(log[r])

(***************************************************************************)
(* C20: every executeCommand call settles, and has settled by the time its *)
(* timer has fired, even when the child never exits; so every merge run    *)
(* whose confirmation dialog the user answers terminates, in success or in *)
(* failure, with the merge button at its idle text.                        *)
(***************************************************************************)
CallSettles ==
    /\ [](call[LiveSlot].timer = "fired" => call[LiveSlot].res.st # "pending")
    /\ <>(call[LiveSlot].res.st # "pending")

HasAnswer(lg) == Has(lg, LAMBDA e : IsUi(e, "answer"))

TerminatesIdle ==
    \A r \in MergeRuns :
        (pc[r] \notin Terminal /\ pc'[r] \in Terminal)
        => mergeButton'.text = IdleButton(lastSelectedBranch').text

C20_AnsweredRunSucceedsOrFails ==
    /\ CallSettles
    /\ HasAnswer(log["m1"]) ~> pc["m1"] \in {"done", "failed"}
    /\ [][TerminatesIdle]_vars

\* C20 as it holds: the run whose dialog is answered with the confirm
\* button terminates in success or in failure, the run whose dialog is
\* answered otherwise terminates cancelled; the button is idle in each case
C20_AnsweredRunTerminates ==
    /\ CallSettles
    /\ Confirmed(log["m1"]) ~> pc["m1"] \in {"done", "failed"}
    /\ HasAnswer(log["m1"]) ~> pc["m1"] \in Terminal
    /\ [][TerminatesIdle]_vars

\* the call of a child that never exits was rejected by its timer, and a
\* confirmed run has terminated
C20_Witness ==
    /\ call[LiveSlot].kind = "hang"
    /\ call[LiveSlot].res = Rejected("timeout")
    /\ Confirmed(log["m1"])
    /\ pc["m1"] \in {"done", "failed"}
    /\ mergeButton.text = "merge"

TypeOK ==
    /\ head \in Branches
    /\ lastSelectedBranch \in Branches
    /\ globalState \in Branches \cup {Unset}
    /\ targetBranchItem \in Branches
    /\ mergeButton \in [text : {"merge", "merging"},
                        tooltip : Branches \cup {"merging"}]
    /\ \A r \in Runs : currentBranchName[r] \in Branches \cup {""}
    /\ hasRemoteBranch \in [MergeRuns -> BOOLEAN]
    /\ \A s \in SelectRuns : items[s] \subseteq Branches
    /\ retargeted \in [Runs -> BOOLEAN]
    /\ invocations \in 0..MaxInvocations

====
